---- MODULE Spec2Model ----
(***************************************************************************)
(* A model of the shotgunEvents daemon (src/src/shotgunEventDaemon.py):   *)
(* the Engine main loop, PluginCollection, Plugin (cursor and backlog),   *)
(* Callback, and the pickled event-id file.                                *)
(***************************************************************************)
EXTENDS Integers, Sequences, FiniteSets, TLC

(***************************************************************************)
(* Bounds of the model.                                                    *)
(***************************************************************************)
\* Event ids of the source are 1..MaxEventId.
MaxEventId == 4
\* The wall clock (minutes) runs over 0..MaxTime.
MaxTime == 6
\* Number of times plugin files are modified on disk.
MaxTouches == 1
\* Number of times the daemon process is killed.
MaxCrashes == 1
\* Number of callback invocations that raise.
MaxFailures == 1
\* The clock of the runs that start from a drawn plugin state.
DrawnNow == 2
\* The option max_conn_retries of the configuration (at least 1).
MaxConnRetries == 2

(***************************************************************************)
(* Program constants.                                                      *)
(***************************************************************************)
\* Python's None for an integer field (Plugin._lastEventId, Plugin._mtime).
None == -1
\* datetime.timedelta(minutes=5) in Plugin._updateLastEventId.
BacklogTimeout == 5

Ids == 1..MaxEventId

\* Configured plugin paths, in order (Config.getPluginPaths), and the
\* basenames found in each directory.  A basename is a number; its order is
\* the order of sorted().
Paths == <<1, 2>>
Basenames(path) == IF path = 1 THEN {1, 3} ELSE {2}
PluginIds == UNION {Basenames(Paths[i]) : i \in 1..Len(Paths)}

Min(S) == CHOOSE x \in S : \A y \in S : x <= y
Max(S) == CHOOSE x \in S : \A y \in S : x >= y

\* sorted(S): the ascending sequence of the elements of a set of integers
\* (the i-th is the element with i - 1 elements below it).
Sorted(S) ==
    [i \in 1..Cardinality(S) |-> CHOOSE x \in S : Cardinality({y \in S : y < x}) = i - 1]

\* Engine iterates self._pluginCollections in order; PluginCollection.__iter__
\* yields plugins by sorted basename.
RECURSIVE IterFrom(_)
IterFrom(i) ==
    IF i > Len(Paths) THEN <<>> ELSE Sorted(Basenames(Paths[i])) \o IterFrom(i + 1)
IterOrder == IterFrom(1)

(***************************************************************************)
(* Events and match filters.                                               *)
(***************************************************************************)
\* The event of the source with a given id (only the fields the core reads).
EventType(id) == IF id % 2 = 0 THEN "Shotgun_Shot_Change" ELSE "Shotgun_Task_Change"
AttributeName(id) == IF id % 3 = 0 THEN "" ELSE "sg_status_list"
Event(id) == [id |-> id, event_type |-> EventType(id), attribute_name |-> AttributeName(id)]

\* A match filter is NoFilter (None or {}) or a record with the set of its
\* keys and, per key, NoAttrs (None) or a set of attribute names.
NoFilter == [keys |-> {}, attrs |-> [k \in {} |-> {}], nulls |-> {}]
Filter(keys, attrs, nulls) == [keys |-> keys, attrs |-> attrs, nulls |-> nulls]

\* A canProcess that looks the event type up before '*'.
canProcessTypeFirst(matchEvents, event) ==
    IF matchEvents.keys = {} THEN TRUE
    ELSE LET eventType == IF event.event_type \in matchEvents.keys THEN event.event_type
                          ELSE "*"
         IN  IF eventType \notin matchEvents.keys THEN FALSE
             ELSE IF eventType \in matchEvents.nulls \/ "*" \in matchEvents.attrs[eventType]
                  THEN TRUE
                  ELSE event.attribute_name # ""
                       /\ event.attribute_name \in matchEvents.attrs[eventType]

\* Callback.canProcess
canProcess(matchEvents, event) ==
    IF matchEvents.keys = {} THEN TRUE
    ELSE LET eventType == IF "*" \in matchEvents.keys THEN "*" ELSE event.event_type
         IN  IF eventType \notin matchEvents.keys THEN FALSE
             ELSE IF eventType \in matchEvents.nulls \/ "*" \in matchEvents.attrs[eventType]
                  THEN TRUE
                  ELSE event.attribute_name # ""
                       /\ event.attribute_name \in matchEvents.attrs[eventType]

\* What registerCallbacks of each plugin file registers: the match filters of
\* its callbacks, in registration order.
Registered(p) ==
    IF p = 1
    THEN << NoFilter,
            Filter({"Shotgun_Task_Change", "Shotgun_Shot_Change"},
                   [k \in {"Shotgun_Task_Change", "Shotgun_Shot_Change"} |-> {"sg_status_list"}],
                   {}) >>
    ELSE IF p = 2
    THEN << Filter({"*"}, [k \in {"*"} |-> {}], {"*"}) >>
    ELSE << NoFilter >>

(***************************************************************************)
(* State.                                                                  *)
(***************************************************************************)
VARIABLES
    pc,            \* where the daemon process is: "down", "loop", "dispatch",
                   \* "retry", "save", "sleep", "reload", "stopped"
    plugins,       \* PluginCollection._plugins: plugin id -> Plugin object
    eventIdFile,   \* the pickled event id file on disk
    events,        \* ids of the EventLogEntry records the source returns
    files,         \* the plugin files on disk: whether the directory lists
                   \* them, their mtime and whether they load
    now,           \* datetime.datetime.now()
    batch,         \* events of _getNewEvents still to process (head: current)
    plIdx,         \* position of the current event in the plugin iteration
    touches,       \* number of file modifications so far
    crashes,       \* number of kills so far
    failures,      \* number of callback invocations that raised so far
    lastDispatch,  \* the Plugin.process call of the last step, if it was one
    saved,         \* each plugin's getState() when the file was last written
    history,       \* what was dispatched so far (HistorySpec records it)
    continue,      \* Engine._continue
    pidFile,       \* whether the pid file is on disk
    sourceUp,      \* whether the source answers queries
    signal,        \* the signal the running process got: "none", "TERM", "INT"
    retry,         \* the fetch in progress: its lower bound, conn_attempts,
                   \* whether the last failure slept, failures in a row
    writable,      \* whether the event id file can be opened for writing
    other,         \* where a second invocation of start or foreground is:
                   \* "down", "checked", "loop"
    stopper        \* where an invocation of stop is: "idle", "killing"

vars == << pc, plugins, eventIdFile, events, files, now, batch, plIdx, touches,
           crashes, failures, lastDispatch, saved, history, continue, pidFile,
           sourceUp, signal, retry, writable, other, stopper >>

\* The flag, the pid file, the source and the signals.
control == << continue, pidFile, sourceUp, signal >>

\* The disk and the other invocations of the program.
outside == << writable, other, stopper >>

\* No fetch is in progress (conn_attempts = 0 before the first attempt).
NoRetry == [nextEventId |-> None, attempts |-> 0, slept |-> FALSE, failed |-> 0]

EmptyBacklog == [k \in {} |-> 0]

(***************************************************************************)
(* Plugin                                                                  *)
(***************************************************************************)
\* Plugin.__init__
PluginInit ==
    [lastEventId |-> None, backlog |-> EmptyBacklog, active |-> TRUE,
     mtime |-> None, callbacks |-> <<>>]

\* Callback.__init__ for each registerCallback call of the plugin file
\* (version: the mtime of the file whose evaluation made the object).
NewCallbacks(p, mtime) ==
    [k \in 1..Len(Registered(p)) |->
        [active |-> TRUE, matchEvents |-> Registered(p)[k], version |-> mtime]]

\* What registerCallbacks registered: every callback of a file that loads,
\* the first ones (partial) of a file whose registerCallbacks raises, none
\* of a file that fails before.
RegisteredBy(p, file) ==
    IF file.ok THEN NewCallbacks(p, file.mtime)
    ELSE SubSeq(NewCallbacks(p, file.mtime), 1, file.partial)

\* A load() that does not compare the mtimes.
PluginLoadAlways(p, pl, file) ==
    [pl EXCEPT !.mtime = file.mtime,
               !.callbacks = RegisteredBy(p, file),
               !.active = file.ok]

\* A load() that keeps the callbacks it has when the file fails.
PluginLoadKeepsCallbacks(p, pl, file) ==
    IF pl.mtime # None /\ ~(pl.mtime < file.mtime)
    THEN pl
    ELSE [pl EXCEPT !.mtime = file.mtime,
                    !.callbacks = IF file.ok THEN RegisteredBy(p, file) ELSE @,
                    !.active = file.ok]

\* Plugin.load: (re)load when never loaded or when the file's mtime is
\* greater than the stored one.
PluginLoad(p, pl, file) ==
    IF pl.mtime # None /\ ~(pl.mtime < file.mtime)
    THEN pl
    ELSE [pl EXCEPT !.mtime = file.mtime,
                    !.callbacks = RegisteredBy(p, file),
                    !.active = file.ok]

\* A setState that takes the id after the one given.
PluginSetStateIntNext(pl, state) == [pl EXCEPT !.lastEventId = state + 1]

\* Plugin.setState with an int.
PluginSetStateInt(pl, state) == [pl EXCEPT !.lastEventId = state]

\* A setState that takes the id of the tuple and drops its backlog.
PluginSetStateNoBacklog(pl, state) == [pl EXCEPT !.lastEventId = state.lastEventId]

\* Plugin.setState with a tuple (lastEventId, backlog).
PluginSetStateTuple(pl, state) ==
    [pl EXCEPT !.lastEventId = state.lastEventId, !.backlog = state.backlog]

\* Plugin.getState
PluginGetState(pl) == [has |-> TRUE, lastEventId |-> pl.lastEventId, backlog |-> pl.backlog]

\* A purge that also drops the entries that expire now.
UnexpiredBacklogAfterNow(pl, t) ==
    [k \in {j \in DOMAIN pl.backlog : pl.backlog[j] > t} |-> pl.backlog[k]]

\* Plugin.getNextUnprocessedEventId: the backlog without the entries whose
\* expiry is before now ...
UnexpiredBacklog(pl, t) ==
    [k \in {j \in DOMAIN pl.backlog : ~(pl.backlog[j] < t)} |-> pl.backlog[k]]

\* ... and the returned id: the least of lastEventId + 1 (when lastEventId is
\* truthy) and the remaining backlog keys, or None.
getNextUnprocessedEventId(pl, t) ==
    LET cands == (IF pl.lastEventId # None /\ pl.lastEventId # 0
                  THEN {pl.lastEventId + 1} ELSE {})
                 \cup DOMAIN UnexpiredBacklog(pl, t)
    IN  IF cands = {} THEN None ELSE Min(cands)

\* An _updateLastEventId that records no skipped id.
updateLastEventIdNoBacklog(pl, eventId, t) == [pl EXCEPT !.lastEventId = eventId]

\* Plugin._updateLastEventId
updateLastEventId(pl, eventId, t) ==
    LET skipped == IF pl.lastEventId # None /\ eventId > pl.lastEventId + 1
                   THEN (pl.lastEventId + 1)..(eventId - 1) ELSE {}
    IN  [pl EXCEPT
            !.backlog = [k \in DOMAIN pl.backlog \cup skipped |->
                            IF k \in skipped THEN t + BacklogTimeout ELSE pl.backlog[k]],
            !.lastEventId = eventId]

(***************************************************************************)
(* Callback.process and Plugin._process                                    *)
(***************************************************************************)
\* How a user callable can end: it returns, it raises from inside its own
\* code (the traceback has the frame of Callback.process and at least one
\* more), or the call itself raises (wrong arity, a callable without Python
\* frames): the traceback then has the frame of Callback.process only, and
\* stack[1] in the except clause raises IndexError out of Callback.process.
Outcomes == {"returns", "raises", "raisesNoFrame"}

\* Callbacks Plugin._process would invoke for the event, were none to fail.
Invocable(p, pl, event) ==
    {k \in 1..Len(pl.callbacks) :
        pl.callbacks[k].active /\ canProcess(pl.callbacks[k].matchEvents, event)}

\* Plugin._process, had a failed callback left its plugin active.
PluginProcessInternalKeepsPlugin(p, pl, event, failAt, kind) ==
    LET could   == Invocable(p, pl, event)
        fails   == failAt \in could /\ kind # "returns"
        invoked == {k \in could : fails => k <= failAt}
        escaped == fails /\ kind = "raisesNoFrame"
        caught  == fails /\ kind = "raises"
        cbs     == [k \in 1..Len(pl.callbacks) |->
                      [pl.callbacks[k] EXCEPT
                          !.active = IF caught /\ k = failAt THEN FALSE ELSE @]]
    IN  [plugin  |-> [pl EXCEPT !.callbacks = cbs],
         invoked |-> invoked,
         failed  |-> IF fails THEN failAt ELSE 0,
         escaped |-> escaped,
         called  |-> TRUE,
         result  |-> ~caught /\ pl.active]

\* Plugin._process, where callback failAt (0: none) ends with outcome kind
\* when it is invoked.  The loop stops at the first callback that returns
\* inactive; an exception leaving Callback.process leaves the loop as well.
\* Result: the plugin, the callbacks invoked, the callback that raised,
\* whether the exception escaped, that _process was called, and the value
\* returned.
PluginProcessInternal(p, pl, event, failAt, kind) ==
    LET could   == Invocable(p, pl, event)
        fails   == failAt \in could /\ kind # "returns"
        invoked == {k \in could : fails => k <= failAt}
        escaped == fails /\ kind = "raisesNoFrame"
        caught  == fails /\ kind = "raises"
        cbs     == [k \in 1..Len(pl.callbacks) |->
                      [pl.callbacks[k] EXCEPT
                          !.active = IF caught /\ k = failAt THEN FALSE ELSE @]]
        act     == IF caught THEN FALSE ELSE pl.active
    IN  [plugin  |-> [pl EXCEPT !.callbacks = cbs, !.active = act],
         invoked |-> invoked,
         failed  |-> IF fails THEN failAt ELSE 0,
         escaped |-> escaped,
         called  |-> TRUE,
         result  |-> act]

\* Plugin.process, had it recorded the event whatever _process returned.
PluginProcessRecordsFailure(p, pl, event, failAt, kind, t) ==
    IF event.id \in DOMAIN pl.backlog
    THEN LET r == PluginProcessInternal(p, pl, event, failAt, kind)
         IN  IF r.escaped THEN [r EXCEPT !.result = FALSE]
             ELSE [r EXCEPT !.plugin = updateLastEventId(
                       [r.plugin EXCEPT !.backlog =
                           [k \in DOMAIN r.plugin.backlog \ {event.id} |-> r.plugin.backlog[k]]],
                       event.id, t)]
    ELSE IF pl.lastEventId # None /\ event.id <= pl.lastEventId
    THEN [plugin |-> pl, invoked |-> {}, failed |-> 0, escaped |-> FALSE,
          called |-> FALSE, result |-> FALSE]
    ELSE LET r == PluginProcessInternal(p, pl, event, failAt, kind)
         IN  IF r.escaped THEN [r EXCEPT !.result = FALSE]
             ELSE [r EXCEPT !.plugin = updateLastEventId(r.plugin, event.id, t)]

\* Plugin.process
PluginProcess(p, pl, event, failAt, kind, t) ==
    IF event.id \in DOMAIN pl.backlog
    THEN LET r == PluginProcessInternal(p, pl, event, failAt, kind)
         IN  IF r.escaped \/ ~r.result THEN [r EXCEPT !.result = FALSE]
             ELSE [r EXCEPT !.plugin = updateLastEventId(
                       [r.plugin EXCEPT !.backlog =
                           [k \in DOMAIN r.plugin.backlog \ {event.id} |-> r.plugin.backlog[k]]],
                       event.id, t)]
    ELSE IF pl.lastEventId # None /\ event.id <= pl.lastEventId
    THEN [plugin |-> pl, invoked |-> {}, failed |-> 0, escaped |-> FALSE,
          called |-> FALSE, result |-> FALSE]
    ELSE LET r == PluginProcessInternal(p, pl, event, failAt, kind)
         IN  IF r.escaped \/ ~r.result THEN [r EXCEPT !.result = FALSE]
             ELSE [r EXCEPT !.plugin = updateLastEventId(r.plugin, event.id, t)]

(***************************************************************************)
(* PluginCollection and the event id file                                  *)
(***************************************************************************)
\* The file as pickle.load returns it, flattened over the collections: for
\* each plugin either no entry or the tuple (lastEventId, backlog).
NoState == [has |-> FALSE, lastEventId |-> None, backlog |-> EmptyBacklog]
\* (legacy: the integer of an old-style file that holds one integer, or None.)
NoFile == [exists |-> FALSE, data |-> [p \in PluginIds |-> NoState], legacy |-> None]

\* The Plugin objects a collection holds are those load() was called on: a
\* Plugin of self._plugins has an _mtime.
InCollection(pl) == pl.mtime # None

\* A load of the collections that goes no further than the first file that
\* fails: the files after it in the iteration are not loaded.
CollectionsLoadUntilFailure(pls, fs) ==
    [p \in PluginIds |->
        IF ~fs[p].present THEN PluginInit
        ELSE IF \E i, j \in 1..Len(IterOrder) :
                    /\ i < j
                    /\ IterOrder[j] = p
                    /\ fs[IterOrder[i]].present
                    /\ ~fs[IterOrder[i]].ok
                    /\ PluginLoad(IterOrder[i], pls[IterOrder[i]], fs[IterOrder[i]])
                          # pls[IterOrder[i]]
             THEN pls[p]
             ELSE PluginLoad(p, pls[p], fs[p])]

\* PluginCollection.load for every collection: every basename the directory
\* lists keeps its Plugin object (or gets a new one), and the object is asked
\* to load(); the objects of the other basenames are dropped.
CollectionsLoad(pls, fs) ==
    [p \in PluginIds |-> IF fs[p].present THEN PluginLoad(p, pls[p], fs[p]) ELSE PluginInit]

\* An iteration by sorted basename whatever the collection.
IterOrderOfBasename(pls) == SelectSeq(Sorted(PluginIds), LAMBDA p : InCollection(pls[p]))

\* PluginCollection.__iter__ of every collection in turn: the plugins held,
\* by collection and sorted basename.
IterOrderOf(pls) == SelectSeq(IterOrder, LAMBDA p : InCollection(pls[p]))

\* PluginCollection.setState with the dict of the file, for every collection
\* whose state is not empty: a plugin held takes its entry, if there is one.
CollectionsSetState(pls, data) ==
    [p \in PluginIds |->
        IF InCollection(pls[p]) /\ data[p].has
        THEN PluginSetStateTuple(pls[p], data[p]) ELSE pls[p]]

\* PluginCollection.setState with an int, for every collection.
CollectionsSetStateInt(pls, lastEventId) ==
    [p \in PluginIds |->
        IF InCollection(pls[p]) THEN PluginSetStateInt(pls[p], lastEventId) ELSE pls[p]]

\* A least id taken over the inactive plugins too.
NextEventIdOfAll(pls, t) ==
    LET ids == {getNextUnprocessedEventId(pls[p], t) :
                   p \in {q \in PluginIds : InCollection(pls[q])}} \ {None}
    IN  IF ids = {} THEN None ELSE Min(ids)

\* PluginCollection.getNextUnprocessedEventId over all collections, as
\* Engine._getNewEvents combines them: the least id of the active plugins.
NextEventId(pls, t) ==
    LET ids == {getNextUnprocessedEventId(pls[p], t) :
                   p \in {q \in PluginIds : InCollection(pls[q]) /\ pls[q].active}} \ {None}
    IN  IF ids = {} THEN None ELSE Min(ids)

\* The side effect of that computation: the active plugins drop their
\* expired backlog entries.
ExpireBacklogs(pls, t) ==
    [p \in PluginIds |->
        IF InCollection(pls[p]) /\ pls[p].active
        THEN [pls[p] EXCEPT !.backlog = UnexpiredBacklog(pls[p], t)]
        ELSE pls[p]]

\* PluginCollection.getState of every collection: the state data it was
\* given, with the entry of each plugin held set to the plugin's getState().
CollectionsGetState(pls, data) ==
    [p \in PluginIds |-> IF InCollection(pls[p]) THEN PluginGetState(pls[p]) ELSE data[p]]

\* A _saveEventIdData that writes nothing.
saveEventIdDataNever(pls, file) == file

\* Engine._saveEventIdData: every collection's getState(), dumped whole when
\* some collection has a state.
saveEventIdData(pls, file) ==
    LET data == CollectionsGetState(pls, file.data)
    IN  IF \E p \in PluginIds : data[p].has
        THEN [exists |-> TRUE, data |-> data, legacy |-> None]
        ELSE file

\* A _loadEventIdData that only reads the pickled form.
loadEventIdDataNoLegacy(pls, file, latest) ==
    IF file.exists
    THEN [plugins |-> CollectionsSetState(pls, file.data), file |-> file]
    ELSE LET seeded == CollectionsSetStateInt(pls, latest)
         IN  [plugins |-> seeded, file |-> saveEventIdData(seeded, file)]

\* Engine._loadEventIdData, where latest is the id find_one returns: the
\* pickled dict goes to the collections; a file that does not unpickle and
\* holds digits is read as one integer, which every collection gets; without
\* a file the collections get the latest id and the file is written.
\* Result: the plugins and the file.
loadEventIdData(pls, file, latest) ==
    IF file.exists /\ file.legacy # None
    THEN [plugins |-> CollectionsSetStateInt(pls, file.legacy), file |-> file]
    ELSE IF file.exists
    THEN [plugins |-> CollectionsSetState(pls, file.data), file |-> file]
    ELSE LET seeded == CollectionsSetStateInt(pls, latest)
         IN  [plugins |-> seeded, file |-> saveEventIdData(seeded, file)]

\* Whether _saveEventIdData opens the file for writing: some collection has
\* a state.
Writes(pls, file) == \E p \in PluginIds : CollectionsGetState(pls, file.data)[p].has

\* _loadEventIdData as _run sees it (up: the source answers; w: the file can
\* be opened for writing); raised tells that an exception left it.  A
\* bootstrap query that raises reaches an except clause that names
\* socket.err, which the socket module does not have: AttributeError.  An
\* open that fails raises IOError, which except OSError does not catch.
tryLoadEventIdData(pls, file, latest, up, w) ==
    IF file.exists
    THEN [plugins |-> loadEventIdData(pls, file, latest).plugins, file |-> file,
          raised |-> FALSE]
    ELSE IF ~up
    THEN [plugins |-> pls, file |-> file, raised |-> TRUE]
    ELSE LET r == loadEventIdData(pls, file, latest)
         IN  IF Writes(r.plugins, file) /\ ~w
             THEN [plugins |-> r.plugins, file |-> file, raised |-> TRUE]
             ELSE [plugins |-> r.plugins, file |-> r.file, raised |-> FALSE]

(***************************************************************************)
(* Engine                                                                  *)
(***************************************************************************)
NoDispatch ==
    [plugin |-> 0, id |-> 0, invoked |-> {}, failed |-> 0, escaped |-> FALSE,
     called |-> FALSE, result |-> FALSE, inBacklog |-> FALSE]

\* The plugin objects of a process that is not running.
NoPlugins == [p \in PluginIds |-> PluginInit]

\* The id the bootstrap query (find_one, ordered by id descending) returns.
LatestEventId == Max(events)

\* The clock after some time passed: a moment (less than a minute), or longer
\* than the backlog timeout.
Later == {now} \cup {t \in {now + BacklogTimeout + 1} : t <= MaxTime}

(***************************************************************************)
(* History of the dispatches, for the properties that speak of the past.   *)
(*   seen[p][k]       ids the k-th Callback object of p was invoked for    *)
(*   startState[p]    state of p right after the last start                *)
(*   failedOn[p]      ids a callback of p failed on, not processed since   *)
(*   replayed[p]      ids of failedOn[p] that p took in process() again    *)
(*   doneNow[p]       ids p processed successfully in this run             *)
(*   doneBefore[p]    ids p processed successfully in the run before       *)
(*   redone[p]        ids of doneBefore[p] dispatched to p in this run     *)
(*   delivered[p]     ids p took in process() in any run                   *)
(*   order            the callbacks invoked for the current event so far,  *)
(*                    as pairs (plugin, registration index)                *)
(* What is recorded is chosen by rec: "none", "run" (seen to redone),      *)
(* "delivered" (delivered only), "order" (order only) or "failed"          *)
(* (failedOn and replayed only).                                           *)
(***************************************************************************)
NoSeen == [p \in PluginIds |-> [k \in 1..Len(Registered(p)) |-> {}]]

NoHistory ==
    [seen          |-> NoSeen,
     startState    |-> [p \in PluginIds |-> NoState],
     doneNow       |-> [p \in PluginIds |-> {}],
     doneBefore    |-> [p \in PluginIds |-> {}],
     redone        |-> [p \in PluginIds |-> {}],
     delivered     |-> [p \in PluginIds |-> {}],
     order         |-> <<>>,
     failedOn      |-> [p \in PluginIds |-> {}],
     replayed      |-> [p \in PluginIds |-> {}]]

\* A process starts: the plugins come up as started.
HistoryOfStart(h, started) ==
    [seen          |-> NoSeen,
     startState    |-> [p \in PluginIds |-> PluginGetState(started[p])],
     doneNow       |-> [p \in PluginIds |-> {}],
     doneBefore    |-> h.doneNow,
     redone        |-> [p \in PluginIds |-> {}],
     delivered     |-> h.delivered,
     order         |-> <<>>,
     failedOn      |-> h.failedOn,
     replayed      |-> h.replayed]

\* The collections are loaded again: a plugin that was reloaded has new
\* Callback objects.
HistoryOfReload(h, before, after) ==
    [h EXCEPT !.seen = [p \in PluginIds |->
                           IF after[p].mtime # before[p].mtime THEN NoSeen[p]
                           ELSE h.seen[p]]]

\* Plugin p took the event in process().
HistoryOfDelivery(h, p, id, r) ==
    [h EXCEPT !.delivered[p] = IF r.called THEN @ \cup {id} ELSE @]

\* Plugin p ran process() for the event with result r.
HistoryOfProcess(h, p, id, r) ==
    [h EXCEPT
        !.seen[p] = [k \in DOMAIN @ |-> IF k \in r.invoked THEN @[k] \cup {id} ELSE @[k]],
        !.doneNow[p] = IF r.result THEN @ \cup {id} ELSE @,
        !.redone[p] = IF r.called /\ id \in h.doneBefore[p] THEN @ \cup {id} ELSE @]

\* Plugin p ran process() for the event with result r, as the idx-th plugin
\* of the iteration: Plugin._process went through its callbacks in list
\* order.
HistoryOfInvocations(h, idx, p, r) ==
    [h EXCEPT !.order = (IF idx = 1 THEN <<>> ELSE @)
                        \o [i \in 1..Cardinality(r.invoked) |-> <<p, Sorted(r.invoked)[i]>>]]

\* Plugin p ran process() for the event with result r: a callback failed
\* on it, or p went through it.
HistoryOfFailure(h, p, id, r) ==
    [h EXCEPT !.failedOn[p] = IF ~r.called THEN @
                              ELSE IF r.failed # 0 /\ ~r.escaped THEN @ \cup {id}
                              ELSE @ \ {id},
              !.replayed[p] = IF r.called /\ id \in h.failedOn[p] THEN @ \cup {id} ELSE @]

Init ==
    /\ pc = "down"
    /\ plugins = NoPlugins
    /\ eventIdFile = NoFile
    /\ events = {1}
    /\ files = [p \in PluginIds |-> [present |-> TRUE, mtime |-> 0, ok |-> TRUE, partial |-> 0]]
    /\ now = 0
    /\ batch = <<>>
    /\ plIdx = 1
    /\ touches = 0
    /\ crashes = 0
    /\ failures = 0
    /\ lastDispatch = NoDispatch
    /\ saved = [p \in PluginIds |-> NoState]
    /\ history = NoHistory
    /\ continue = TRUE
    /\ pidFile = FALSE
    /\ sourceUp = TRUE
    /\ signal = "none"
    /\ retry = NoRetry
    /\ writable = TRUE
    /\ other = "down"
    /\ stopper = "idle"

\* Daemon.start and Engine._run up to the main loop: no pid file is there,
\* the pid file is written, every collection is loaded, then
\* _loadEventIdData; an exception that leaves it is caught in _run, which
\* returns.  The process may start any time after it went down.  (rec: what
\* the history records.)
Start(rec) ==
    /\ pc = "down"
    /\ ~pidFile
    /\ \E t \in Later :
        \E r \in {tryLoadEventIdData(CollectionsLoad(NoPlugins, files), eventIdFile,
                                     LatestEventId, sourceUp, writable)} :
            /\ now' = t
            /\ plugins' = r.plugins
            /\ eventIdFile' = r.file
            /\ saved' = IF eventIdFile.exists \/ r.raised THEN saved
                        ELSE [p \in PluginIds |-> PluginGetState(r.plugins[p])]
            /\ history' = IF rec = "run" THEN HistoryOfStart(history, r.plugins) ELSE history
            /\ pc' = IF r.raised THEN "stopped" ELSE "loop"
    /\ batch' = <<>>
    /\ plIdx' = 1
    /\ lastDispatch' = NoDispatch
    /\ UNCHANGED << events, files, touches, crashes, failures >>
    /\ continue' = TRUE
    /\ pidFile' = TRUE
    /\ signal' = "none"
    /\ UNCHANGED << sourceUp, retry, outside >>

\* A query that leaves out the event with the id asked for.
FindAbove(nextEventId) == Sorted({e \in events : e > nextEventId})

\* The query of Engine._getNewEvents: the source returns, in ascending order,
\* every event whose id is greater than nextEventId - 1.
Find(nextEventId) == Sorted({e \in events : e > nextEventId - 1})

\* Engine._getNewEvents: no query when no active plugin has a next id; the
\* query is answered at the first attempt.
GetNewEvents ==
    /\ pc = "loop"
    /\ \E nextEventId \in {NextEventId(plugins, now)} :
       \E found \in {IF nextEventId = None THEN <<>> ELSE Find(nextEventId)} :
           /\ nextEventId # None => sourceUp
           /\ batch' = found
           /\ pc' = IF found = <<>> THEN "sleep" ELSE "dispatch"
    /\ plugins' = ExpireBacklogs(plugins, now)
    /\ plIdx' = 1
    /\ lastDispatch' = NoDispatch
    /\ UNCHANGED << eventIdFile, events, files, now, touches, crashes, failures,
                    saved, history >>
    /\ retry' = NoRetry
    /\ UNCHANGED << control, outside >>

\* A counter that is compared before it is incremented.
checkConnectionAttemptsLate(conn_attempts) ==
    IF conn_attempts = MaxConnRetries
    THEN [attempts |-> 0, slept |-> TRUE]
    ELSE [attempts |-> conn_attempts + 1, slept |-> FALSE]

\* Engine._checkConnectionAttempts: the counter it returns and whether it
\* slept conn_retry_sleep.
checkConnectionAttempts(conn_attempts) ==
    IF conn_attempts + 1 = MaxConnRetries
    THEN [attempts |-> 0, slept |-> TRUE]
    ELSE [attempts |-> conn_attempts + 1, slept |-> FALSE]

\* Failures in a row are counted up to here.
MaxCounted == 2 * MaxConnRetries + 1

\* A lower bound computed again for each attempt.
LowerBoundOfNow(r, pls, t) == NextEventId(pls, t)

\* The lower bound of the query of an attempt after the first: filters is
\* built once, before the while of _getNewEvents.
LowerBound(r, pls, t) == r.nextEventId

\* A fetch that gives up after it slept.
FetchGivesUp ==
    /\ pc \in {"loop", "retry"}
    /\ ~sourceUp
    /\ \E before \in {IF pc = "loop"
                       THEN [NoRetry EXCEPT !.nextEventId = NextEventId(plugins, now)]
                       ELSE retry} :
       \E c \in {checkConnectionAttempts(before.attempts)} :
           /\ before.nextEventId # None
           /\ retry' = [nextEventId |-> before.nextEventId, attempts |-> c.attempts,
                        slept |-> c.slept,
                        failed |-> Min({before.failed + 1, MaxCounted})]
           /\ \E t \in IF c.slept THEN Later ELSE {now} : now' = t
           /\ pc' = IF c.slept THEN "stopped" ELSE "retry"
    /\ plugins' = IF pc = "loop" THEN ExpireBacklogs(plugins, now) ELSE plugins
    /\ lastDispatch' = NoDispatch
    /\ UNCHANGED << eventIdFile, events, files, batch, plIdx, touches, crashes,
                    failures, saved, history >>
    /\ UNCHANGED << control, outside >>

\* Engine._getNewEvents when the query raises, at the first attempt (after
\* the next id was computed, which purges the expired backlog entries) or at
\* a later one: _checkConnectionAttempts, and the query is made again,
\* whatever self._continue.
FetchFails ==
    /\ pc \in {"loop", "retry"}
    /\ ~sourceUp
    /\ \E before \in {IF pc = "loop"
                       THEN [NoRetry EXCEPT !.nextEventId = NextEventId(plugins, now)]
                       ELSE retry} :
       \E c \in {checkConnectionAttempts(before.attempts)} :
           /\ before.nextEventId # None
           /\ retry' = [nextEventId |-> before.nextEventId, attempts |-> c.attempts,
                        slept |-> c.slept,
                        failed |-> Min({before.failed + 1, MaxCounted})]
           /\ \E t \in IF c.slept THEN Later ELSE {now} : now' = t
           /\ pc' = "retry"
    /\ plugins' = IF pc = "loop" THEN ExpireBacklogs(plugins, now) ELSE plugins
    /\ lastDispatch' = NoDispatch
    /\ UNCHANGED << eventIdFile, events, files, batch, plIdx, touches, crashes,
                    failures, saved, history >>
    /\ UNCHANGED << control, outside >>

\* The query made again is answered: _getNewEvents returns what was found.
\* (retry keeps what the attempts were until the next fetch.)
FetchRetry ==
    /\ pc = "retry"
    /\ sourceUp
    /\ \E found \in {Find(LowerBound(retry, plugins, now))} :
           /\ batch' = found
           /\ pc' = IF found = <<>> THEN "sleep" ELSE "dispatch"
    /\ plIdx' = 1
    /\ lastDispatch' = NoDispatch
    /\ UNCHANGED << plugins, eventIdFile, events, files, now, touches, crashes,
                    failures, saved, history >>
    /\ UNCHANGED << control, retry, outside >>

\* One turn of the loop of PluginCollection.process for the current event:
\* an inactive plugin is skipped, an active one processes the event.  An
\* exception that leaves Callback.process ends _mainLoop (caught in _run).
\* (kinds: the ways the callbacks can end.)
ProcessEvent(rec, kinds) ==
    /\ pc = "dispatch"
    /\ LET order == IterOrderOf(plugins)
           p == order[plIdx]
           event == Event(Head(batch))
           last == plIdx = Len(order)
       IN  IF ~plugins[p].active
           THEN /\ pc' = IF last THEN "save" ELSE "dispatch"
                /\ plIdx' = IF last THEN 1 ELSE plIdx + 1
                /\ lastDispatch' = NoDispatch
                /\ history' = IF rec = "order" /\ plIdx = 1
                              THEN [history EXCEPT !.order = <<>>] ELSE history
                /\ UNCHANGED << plugins, failures >>
           ELSE \E failAt \in 0..Len(plugins[p].callbacks) :
                \E kind \in IF failAt = 0 THEN {"returns"} ELSE kinds \ {"returns"} :
                \E r \in {PluginProcess(p, plugins[p], event, failAt, kind, now)} :
                    /\ r.failed # 0 => failures < MaxFailures
                    /\ failures' = IF r.failed # 0 THEN failures + 1 ELSE failures
                    /\ plugins' = [plugins EXCEPT ![p] = r.plugin]
                    /\ pc' = IF r.escaped THEN "stopped"
                             ELSE IF last THEN "save" ELSE "dispatch"
                    /\ plIdx' = IF r.escaped THEN plIdx
                                ELSE IF last THEN 1 ELSE plIdx + 1
                    /\ lastDispatch' =
                          [plugin |-> p, id |-> event.id, invoked |-> r.invoked,
                           failed |-> r.failed, escaped |-> r.escaped,
                           called |-> r.called, result |-> r.result,
                           inBacklog |-> event.id \in DOMAIN plugins[p].backlog]
                    /\ history' =
                          IF rec = "run" THEN HistoryOfProcess(history, p, event.id, r)
                          ELSE IF rec = "delivered"
                          THEN HistoryOfDelivery(history, p, event.id, r)
                          ELSE IF rec = "order"
                          THEN HistoryOfInvocations(history, plIdx, p, r)
                          ELSE IF rec = "failed"
                          THEN HistoryOfFailure(history, p, event.id, r)
                          ELSE history
    /\ UNCHANGED << eventIdFile, events, files, now, batch, touches, crashes, saved >>
    /\ UNCHANGED << control, retry, outside >>

\* Engine._saveEventIdData after the event went through every collection.
\* An open that fails raises IOError, which except OSError does not catch:
\* it leaves _mainLoop and is caught in _run.
SaveEventIdData ==
    /\ pc = "save"
    /\ IF Writes(plugins, eventIdFile) /\ ~writable
       THEN /\ pc' = "stopped"
            /\ UNCHANGED << eventIdFile, saved, batch >>
       ELSE /\ eventIdFile' = saveEventIdData(plugins, eventIdFile)
            /\ saved' = [p \in PluginIds |-> PluginGetState(plugins[p])]
            /\ batch' = Tail(batch)
            /\ pc' = IF Tail(batch) = <<>> THEN "sleep" ELSE "dispatch"
    /\ lastDispatch' = NoDispatch
    /\ UNCHANGED << plugins, events, files, now, plIdx, touches, crashes, failures,
                    history >>
    /\ UNCHANGED << control, retry, outside >>

\* time.sleep(self._fetch_interval): time passes.
Sleep ==
    /\ pc = "sleep"
    /\ \E t \in Later : now' = t
    /\ pc' = "reload"
    /\ lastDispatch' = NoDispatch
    /\ UNCHANGED << plugins, eventIdFile, events, files, batch, plIdx, touches,
                    crashes, failures, saved, history >>
    /\ UNCHANGED << control, retry, outside >>

\* The end of an iteration of _mainLoop: every collection is loaded again,
\* then _loadEventIdData (an exception that leaves it ends the loop), then
\* the test of the while: the loop goes on when self._continue is set.
Reload(rec) ==
    /\ pc = "reload"
    /\ \E loaded \in {CollectionsLoad(plugins, files)} :
       \E r \in {tryLoadEventIdData(loaded, eventIdFile, LatestEventId, sourceUp,
                                    writable)} :
           /\ plugins' = r.plugins
           /\ eventIdFile' = r.file
           /\ saved' = IF eventIdFile.exists \/ r.raised THEN saved
                       ELSE [p \in PluginIds |-> PluginGetState(r.plugins[p])]
           /\ history' = IF rec = "run" THEN HistoryOfReload(history, plugins, loaded)
                         ELSE history
           /\ pc' = IF r.raised \/ ~continue THEN "stopped" ELSE "loop"
    /\ lastDispatch' = NoDispatch
    /\ UNCHANGED << events, files, now, batch, plIdx, touches, crashes, failures >>
    /\ UNCHANGED << control, retry, outside >>

\* An exit that leaves the pid file.
ExitLeavesPidFile ==
    /\ pc = "stopped"
    /\ pc' = "down"
    /\ plugins' = NoPlugins
    /\ batch' = <<>>
    /\ plIdx' = 1
    /\ lastDispatch' = NoDispatch
    /\ UNCHANGED << eventIdFile, events, files, now, touches, crashes, failures,
                    saved, history >>
    /\ UNCHANGED << control, retry, outside >>

\* _run returned: the process ends, its objects are gone, and _delpid
\* (atexit) removes the pid file.
Exit ==
    /\ pc = "stopped"
    /\ pc' = "down"
    /\ plugins' = NoPlugins
    /\ batch' = <<>>
    /\ plIdx' = 1
    /\ lastDispatch' = NoDispatch
    /\ UNCHANGED << eventIdFile, events, files, now, touches, crashes, failures,
                    saved, history >>
    /\ pidFile' = FALSE
    /\ UNCHANGED << continue, sourceUp, signal, retry, outside >>

(***************************************************************************)
(* Environment                                                             *)
(***************************************************************************)
\* The process is killed (power loss, SIGKILL) at any point; the pid file it
\* leaves is removed before the next start.
Crash ==
    /\ pc # "down"
    /\ crashes < MaxCrashes
    /\ crashes' = crashes + 1
    /\ pc' = "down"
    /\ plugins' = NoPlugins
    /\ batch' = <<>>
    /\ plIdx' = 1
    /\ lastDispatch' = NoDispatch
    /\ UNCHANGED << eventIdFile, events, files, now, touches, failures, saved, history >>
    /\ pidFile' = FALSE
    /\ UNCHANGED << continue, sourceUp, signal, retry, outside >>

\* A writer of the source commits an event; ids commit out of order.  The
\* source is read by the fetch and by the bootstrap query only, so a commit
\* is taken at the last moment before one of them.
NewEvent ==
    /\ pc \in {"loop", "down"}
    /\ \E id \in Ids \ events : events' = events \cup {id}
    /\ lastDispatch' = NoDispatch
    /\ UNCHANGED << pc, plugins, eventIdFile, files, now, batch, plIdx, touches,
                    crashes, failures, saved, history >>
    /\ UNCHANGED << control, retry, outside >>

\* A plugin file is rewritten: its mtime advances, and it loads or not.  The
\* files are read by load() only, so a change is taken at the last moment
\* before the collections are loaded.
Touch ==
    /\ pc \in {"reload", "down"}
    /\ touches < MaxTouches
    /\ touches' = touches + 1
    /\ \E p \in {q \in PluginIds : files[q].present}, ok \in BOOLEAN :
          files' = [files EXCEPT ![p] = [present |-> TRUE, mtime |-> @.mtime + 1, ok |-> ok,
                                         partial |-> 0]]
    /\ lastDispatch' = NoDispatch
    /\ UNCHANGED << pc, plugins, eventIdFile, events, now, batch, plIdx,
                    crashes, failures, saved, history >>
    /\ UNCHANGED << control, retry, outside >>

\* A plugin file is rewritten with a registerCallbacks that raises after it
\* registered some of its callbacks.
TouchRaising ==
    /\ pc \in {"reload", "down"}
    /\ touches < MaxTouches
    /\ touches' = touches + 1
    /\ \E p \in {q \in PluginIds : files[q].present} :
       \E n \in 1..Len(Registered(p)) :
          files' = [files EXCEPT ![p] = [present |-> TRUE, mtime |-> @.mtime + 1,
                                         ok |-> FALSE, partial |-> n]]
    /\ lastDispatch' = NoDispatch
    /\ UNCHANGED << pc, plugins, eventIdFile, events, now, batch, plIdx,
                    crashes, failures, saved, history >>
    /\ UNCHANGED << control, retry, outside >>

\* A plugin file is put into its directory.  Like a rewrite, the change is
\* taken at the last moment before the collections are loaded.
AddFile ==
    /\ pc \in {"reload", "down"}
    /\ touches < MaxTouches
    /\ touches' = touches + 1
    /\ \E p \in {q \in PluginIds : ~files[q].present}, ok \in BOOLEAN :
          files' = [files EXCEPT ![p] = [present |-> TRUE, mtime |-> @.mtime + 1, ok |-> ok,
                                         partial |-> 0]]
    /\ lastDispatch' = NoDispatch
    /\ UNCHANGED << pc, plugins, eventIdFile, events, now, batch, plIdx,
                    crashes, failures, saved, history >>
    /\ UNCHANGED << control, retry, outside >>

\* A plugin file is taken out of its directory.
RemoveFile ==
    /\ pc \in {"reload", "down"}
    /\ touches < MaxTouches
    /\ touches' = touches + 1
    /\ \E p \in {q \in PluginIds : files[q].present} :
          files' = [files EXCEPT ![p].present = FALSE]
    /\ lastDispatch' = NoDispatch
    /\ UNCHANGED << pc, plugins, eventIdFile, events, now, batch, plIdx,
                    crashes, failures, saved, history >>
    /\ UNCHANGED << control, retry, outside >>

\* A plugin file is renamed (or moved to the other directory): the file
\* keeps its content and its mtime.
RenameFile ==
    /\ pc \in {"reload", "down"}
    /\ touches < MaxTouches
    /\ touches' = touches + 1
    /\ \E p \in {q \in PluginIds : files[q].present} :
       \E n \in {q \in PluginIds : ~files[q].present} :
          files' = [files EXCEPT ![p].present = FALSE,
                                 ![n] = [files[p] EXCEPT !.present = TRUE]]
    /\ lastDispatch' = NoDispatch
    /\ UNCHANGED << pc, plugins, eventIdFile, events, now, batch, plIdx,
                    crashes, failures, saved, history >>
    /\ UNCHANGED << control, retry, outside >>

\* The running process gets SIGTERM: termHandler runs _delpid, which removes
\* the pid file and calls _cleanup.
Term ==
    /\ pc \notin {"down", "stopped"}
    /\ signal = "none"
    /\ signal' = "TERM"
    /\ continue' = FALSE
    /\ pidFile' = FALSE
    /\ lastDispatch' = NoDispatch
    /\ UNCHANGED << pc, plugins, eventIdFile, events, files, now, batch, plIdx, touches,
                    crashes, failures, saved, history, sourceUp,
                    retry, outside >>

\* The running process gets SIGINT: no handler is installed, Python raises
\* KeyboardInterrupt where the main thread is, and _run catches it.  (An
\* interrupt that arrives inside a callback is caught by Callback.process
\* like any exception of the callback.)
Interrupt ==
    /\ pc \notin {"down", "stopped"}
    /\ signal = "none"
    /\ signal' = "INT"
    /\ pc' = "stopped"
    /\ lastDispatch' = NoDispatch
    /\ UNCHANGED << plugins, eventIdFile, events, files, now, batch, plIdx, touches,
                    crashes, failures, saved, history, continue, pidFile, sourceUp,
                    retry, outside >>

\* The pid file of the running process is removed from outside.
RemovePidFile ==
    /\ pc \notin {"down", "stopped"}
    /\ pidFile
    /\ pidFile' = FALSE
    /\ lastDispatch' = NoDispatch
    /\ UNCHANGED << pc, plugins, eventIdFile, events, files, now, batch, plIdx, touches,
                    crashes, failures, saved, history, continue, sourceUp, signal,
                    retry, outside >>

\* The source stops answering, or answers again.
SourceFails ==
    /\ sourceUp
    /\ sourceUp' = FALSE
    /\ lastDispatch' = NoDispatch
    /\ UNCHANGED << pc, plugins, eventIdFile, events, files, now, batch, plIdx, touches,
                    crashes, failures, saved, history, continue, pidFile, signal,
                    retry, outside >>

SourceRecovers ==
    /\ ~sourceUp
    /\ sourceUp' = TRUE
    /\ lastDispatch' = NoDispatch
    /\ UNCHANGED << pc, plugins, eventIdFile, events, files, now, batch, plIdx, touches,
                    crashes, failures, saved, history, continue, pidFile, signal,
                    retry, outside >>

\* The event id file can no longer be opened for writing (permissions, a
\* directory that is gone, a disk that is full), or it can again.
DiskFails ==
    /\ writable
    /\ writable' = FALSE
    /\ lastDispatch' = NoDispatch
    /\ UNCHANGED << pc, plugins, eventIdFile, events, files, now, batch, plIdx, touches,
                    crashes, failures, saved, history, control, retry, other, stopper >>

DiskRecovers ==
    /\ ~writable
    /\ writable' = TRUE
    /\ lastDispatch' = NoDispatch
    /\ UNCHANGED << pc, plugins, eventIdFile, events, files, now, batch, plIdx, touches,
                    crashes, failures, saved, history, control, retry, other, stopper >>

\* Daemon.start of a second invocation (start or foreground), up to the
\* test of the pid file: it goes on when it finds none (when it finds one it
\* writes a message and exits).
OtherCheck ==
    /\ other = "down"
    /\ ~pidFile
    /\ other' = "checked"
    /\ lastDispatch' = NoDispatch
    /\ UNCHANGED << pc, plugins, eventIdFile, events, files, now, batch, plIdx, touches,
                    crashes, failures, saved, history, retry, writable >>
    /\ UNCHANGED << control, stopper >>

\* The second invocation, a start, goes on after the test: _daemonize forks
\* twice and writes the pid file, then _run is called.
OtherDaemonize ==
    /\ other = "checked"
    /\ other' = "loop"
    /\ pidFile' = TRUE
    /\ lastDispatch' = NoDispatch
    /\ UNCHANGED << pc, plugins, eventIdFile, events, files, now, batch, plIdx, touches,
                    crashes, failures, saved, history, retry, writable >>
    /\ UNCHANGED << continue, sourceUp, signal, stopper >>

\* The second invocation, a foreground, goes on after the test: _daemonize
\* is not called, no pid file is written, then _run is called.
OtherForeground ==
    /\ other = "checked"
    /\ other' = "loop"
    /\ lastDispatch' = NoDispatch
    /\ UNCHANGED << pc, plugins, eventIdFile, events, files, now, batch, plIdx, touches,
                    crashes, failures, saved, history, retry, writable >>
    /\ UNCHANGED << control, stopper >>

\* The process of the second invocation ends: _delpid (atexit) removes the
\* pid file that is there.
OtherExit ==
    /\ other = "loop"
    /\ other' = "down"
    /\ pidFile' = FALSE
    /\ lastDispatch' = NoDispatch
    /\ UNCHANGED << pc, plugins, eventIdFile, events, files, now, batch, plIdx, touches,
                    crashes, failures, saved, history, retry, writable >>
    /\ UNCHANGED << continue, sourceUp, signal, stopper >>

\* Daemon.stop that finds no pid file: it writes a message and returns.
StopNotRunning ==
    /\ stopper # "killing"
    /\ ~pidFile
    /\ stopper' = "notRunning"
    /\ lastDispatch' = NoDispatch
    /\ UNCHANGED << pc, plugins, eventIdFile, events, files, now, batch, plIdx, touches,
                    crashes, failures, saved, history, retry, writable >>
    /\ UNCHANGED << control, other >>

\* Daemon.stop that finds the pid file: it read the pid.
StopBegin ==
    /\ stopper # "killing"
    /\ pidFile
    /\ stopper' = "killing"
    /\ lastDispatch' = NoDispatch
    /\ UNCHANGED << pc, plugins, eventIdFile, events, files, now, batch, plIdx, touches,
                    crashes, failures, saved, history, retry, writable >>
    /\ UNCHANGED << control, other >>

\* One turn of the while of Daemon.stop while the process is there: os.kill
\* sends SIGTERM, and termHandler runs _delpid in the process.
StopKill ==
    /\ stopper = "killing"
    /\ pc # "down"
    /\ continue' = FALSE
    /\ pidFile' = FALSE
    /\ signal' = IF signal = "none" THEN "TERM" ELSE signal
    /\ lastDispatch' = NoDispatch
    /\ UNCHANGED << pc, plugins, eventIdFile, events, files, now, batch, plIdx, touches,
                    crashes, failures, saved, history, retry, writable >>
    /\ UNCHANGED << sourceUp, stopper, other >>

\* A stop that returns after the first os.kill.
StopReturnsAtOnce ==
    /\ stopper = "killing"
    /\ signal # "none"
    /\ stopper' = "returned"
    /\ pidFile' = FALSE
    /\ lastDispatch' = NoDispatch
    /\ UNCHANGED << pc, plugins, eventIdFile, events, files, now, batch, plIdx, touches,
                    crashes, failures, saved, history, retry, writable >>
    /\ UNCHANGED << continue, sourceUp, signal, other >>

\* The turn of the while of Daemon.stop that finds the process gone:
\* os.kill raises OSError (No such process), the pid file is removed if it
\* is there and stop returns.
StopReturn ==
    /\ stopper = "killing"
    /\ pc = "down"
    /\ stopper' = "returned"
    /\ pidFile' = FALSE
    /\ lastDispatch' = NoDispatch
    /\ UNCHANGED << pc, plugins, eventIdFile, events, files, now, batch, plIdx, touches,
                    crashes, failures, saved, history, retry, writable >>
    /\ UNCHANGED << continue, sourceUp, signal, other >>

\* The daemon and its environment.
Next ==
    \/ Start("none")
    \/ GetNewEvents
    \/ ProcessEvent("none", Outcomes)
    \/ SaveEventIdData
    \/ Sleep
    \/ Reload("none")
    \/ Exit
    \/ Crash
    \/ NewEvent
    \/ Touch

Spec == Init /\ [][Next]_vars

\* The same, with the history of the dispatches recorded.
HistoryNext ==
    \/ Start("run")
    \/ GetNewEvents
    \/ ProcessEvent("run", Outcomes)
    \/ SaveEventIdData
    \/ Sleep
    \/ Reload("run")
    \/ Exit
    \/ Crash
    \/ NewEvent
    \/ Touch

HistorySpec == Init /\ [][HistoryNext]_vars

\* The steps of the daemon process itself, and of whoever starts it again,
\* where every callback returns (the plugins stay active).
Daemon ==
    \/ Start("delivered")
    \/ GetNewEvents
    \/ ProcessEvent("delivered", {"returns"})
    \/ SaveEventIdData
    \/ Sleep
    \/ Reload("delivered")

\* That daemon with the deliveries recorded, and its environment where the
\* plugin files stay as they are.
LiveNext ==
    \/ Daemon
    \/ Crash
    \/ NewEvent

\* The daemon keeps running: a process that can take a step takes one (the
\* source answers, callbacks return or raise, sleep ends), and a process that
\* went down is started again.
LiveSpec == Init /\ [][LiveNext]_vars /\ WF_vars(Daemon)

\* The daemon where every callback returns, in plugin directories that list
\* any of the basenames at first and whose listing changes.
DirInit ==
    /\ pc = "down"
    /\ plugins = NoPlugins
    /\ eventIdFile = NoFile
    /\ events = {1}
    /\ files \in [PluginIds -> {[present |-> b, mtime |-> 0, ok |-> TRUE, partial |-> 0] : b \in BOOLEAN}]
    /\ now = 0
    /\ batch = <<>>
    /\ plIdx = 1
    /\ touches = 0
    /\ crashes = 0
    /\ failures = 0
    /\ lastDispatch = NoDispatch
    /\ saved = [p \in PluginIds |-> NoState]
    /\ history = NoHistory
    /\ continue = TRUE
    /\ pidFile = FALSE
    /\ sourceUp = TRUE
    /\ signal = "none"
    /\ retry = NoRetry
    /\ writable = TRUE
    /\ other = "down"
    /\ stopper = "idle"

DirNext ==
    \/ Start("none")
    \/ GetNewEvents
    \/ ProcessEvent("none", {"returns"})
    \/ SaveEventIdData
    \/ Sleep
    \/ Reload("none")
    \/ Crash
    \/ NewEvent
    \/ AddFile
    \/ RemoveFile
    \/ RenameFile

DirSpec == DirInit /\ [][DirNext]_vars

\* The daemon in directories whose listing changes, whose callbacks return
\* or raise, with the invocations for the current event recorded.
OrderNext ==
    \/ Start("none")
    \/ GetNewEvents
    \/ ProcessEvent("order", Outcomes)
    \/ SaveEventIdData
    \/ Sleep
    \/ Reload("none")
    \/ Exit
    \/ Crash
    \/ NewEvent
    \/ Touch
    \/ AddFile
    \/ RemoveFile
    \/ RenameFile

OrderSpec == DirInit /\ [][OrderNext]_vars

\* The steps of a running process whose callbacks return, up to its end.
Running ==
    \/ GetNewEvents
    \/ FetchFails
    \/ FetchRetry
    \/ ProcessEvent("none", {"returns"})
    \/ SaveEventIdData
    \/ Sleep
    \/ Reload("none")
    \/ Exit

\* That process, started now and then, with a source that fails and
\* recovers, signals, and a pid file that can be removed.
ShutdownNext ==
    \/ Start("none")
    \/ Running
    \/ NewEvent
    \/ Term
    \/ Interrupt
    \/ RemovePidFile
    \/ SourceFails
    \/ SourceRecovers

\* The process keeps running: when it can take a step it takes one.
ShutdownSpec == Init /\ [][ShutdownNext]_vars /\ WF_vars(Running)

\* The daemon whose plugin files are rewritten, with files that load, files
\* that fail before they register anything and files whose registerCallbacks
\* raises.
LoadNext ==
    \/ Start("none")
    \/ GetNewEvents
    \/ ProcessEvent("none", {"returns", "raises"})
    \/ SaveEventIdData
    \/ Sleep
    \/ Reload("none")
    \/ NewEvent
    \/ Touch
    \/ TouchRaising

LoadSpec == Init /\ [][LoadNext]_vars

\* Two invocations that start a daemon with the same pid file, SIGTERM, and
\* a source that fails and recovers.
MutexNext ==
    \/ Start("none")
    \/ Running
    \/ NewEvent
    \/ Term
    \/ SourceFails
    \/ SourceRecovers
    \/ OtherCheck
    \/ OtherDaemonize
    \/ OtherForeground
    \/ OtherExit

MutexSpec == Init /\ [][MutexNext]_vars

\* The daemon that is started and stopped, with a source that fails and
\* recovers; restart is a stop followed by a start, and no start is made
\* while a stop is under way.
Stop ==
    \/ StopNotRunning
    \/ StopBegin
    \/ StopKill
    \/ StopReturn

StopNext ==
    \/ (stopper # "killing" /\ Start("none"))
    \/ Running
    \/ NewEvent
    \/ SourceFails
    \/ SourceRecovers
    \/ Stop

StopSpec == Init /\ [][StopNext]_vars

\* The daemon that finds an old-style event id file, which holds one
\* integer, when it is first started.
LegacyInit ==
    /\ pc = "down"
    /\ plugins = NoPlugins
    /\ \E n \in Ids : eventIdFile = [exists |-> TRUE, data |-> NoFile.data, legacy |-> n]
    /\ events = {1}
    /\ files = [p \in PluginIds |-> [present |-> TRUE, mtime |-> 0, ok |-> TRUE, partial |-> 0]]
    /\ now = 0
    /\ batch = <<>>
    /\ plIdx = 1
    /\ touches = 0
    /\ crashes = 0
    /\ failures = 0
    /\ lastDispatch = NoDispatch
    /\ saved = [p \in PluginIds |-> NoState]
    /\ history = NoHistory
    /\ continue = TRUE
    /\ pidFile = FALSE
    /\ sourceUp = TRUE
    /\ signal = "none"
    /\ retry = NoRetry
    /\ writable = TRUE
    /\ other = "down"
    /\ stopper = "idle"

LegacySpec == LegacyInit /\ [][Next]_vars

\* The daemon in directories that list some of the files, whose plugin
\* files are rewritten, with a source that fails and recovers.
FetchNext ==
    \/ Start("none")
    \/ Running
    \/ NewEvent
    \/ Touch
    \/ SourceFails
    \/ SourceRecovers

FetchSpec == DirInit /\ [][FetchNext]_vars

\* The daemon whose callbacks return or raise and whose plugin files are
\* rewritten, with the ids the plugins failed on recorded.
Replaying ==
    \/ Start("failed")
    \/ GetNewEvents
    \/ ProcessEvent("failed", {"returns", "raises"})
    \/ SaveEventIdData
    \/ Sleep
    \/ Reload("failed")

ReplayNext ==
    \/ Replaying
    \/ NewEvent
    \/ Touch

\* The daemon keeps running: when it can take a step it takes one.
ReplaySpec == Init /\ [][ReplayNext]_vars /\ WF_vars(Replaying)

\* SIGINT arrives while a callback of the plugin at hand runs: Python raises
\* KeyboardInterrupt inside the callback, and the bare except clause of
\* Callback.process takes it as it takes any exception of the callback.
InterruptCallback ==
    /\ pc = "dispatch"
    /\ signal = "none"
    /\ signal' = "INT"
    /\ LET order == IterOrderOf(plugins)
           p == order[plIdx]
           event == Event(Head(batch))
           last == plIdx = Len(order)
       IN  /\ plugins[p].active
           /\ \E failAt \in 1..Len(plugins[p].callbacks) :
              \E kind \in {"raises", "raisesNoFrame"} :
              \E r \in {PluginProcess(p, plugins[p], event, failAt, kind, now)} :
                  /\ r.failed # 0
                  /\ plugins' = [plugins EXCEPT ![p] = r.plugin]
                  /\ pc' = IF r.escaped THEN "stopped"
                           ELSE IF last THEN "save" ELSE "dispatch"
                  /\ plIdx' = IF r.escaped THEN plIdx
                              ELSE IF last THEN 1 ELSE plIdx + 1
                  /\ lastDispatch' =
                        [plugin |-> p, id |-> event.id, invoked |-> r.invoked,
                         failed |-> r.failed, escaped |-> r.escaped,
                         called |-> r.called, result |-> r.result,
                         inBacklog |-> event.id \in DOMAIN plugins[p].backlog]
    /\ UNCHANGED << eventIdFile, events, files, now, batch, touches, crashes,
                    failures, saved, history, continue, pidFile, sourceUp,
                    retry, outside >>

\* The process whose callbacks return, with events that arrive and SIGINT
\* at any point of the loop, inside a callback or outside.
InterruptNext ==
    \/ Start("none")
    \/ Running
    \/ NewEvent
    \/ Interrupt
    \/ InterruptCallback
    \/ SourceFails
    \/ SourceRecovers

InterruptSpec == Init /\ [][InterruptNext]_vars

\* The daemon with callbacks that return, raise, or raise without a frame
\* of their own, and plugin files that are rewritten, well or badly.
ActiveNext ==
    \/ Start("none")
    \/ GetNewEvents
    \/ ProcessEvent("none", Outcomes)
    \/ SaveEventIdData
    \/ Sleep
    \/ Reload("none")
    \/ Exit
    \/ NewEvent
    \/ Touch
    \/ TouchRaising

ActiveSpec == Init /\ [][ActiveNext]_vars

\* That process with a source and a disk that fail and recover.
FaultNext ==
    \/ Start("none")
    \/ Running
    \/ NewEvent
    \/ SourceFails
    \/ SourceRecovers
    \/ DiskFails
    \/ DiskRecovers

FaultSpec == Init /\ [][FaultNext]_vars /\ WF_vars(Running)

\* The states (lastEventId, backlog) a plugin can hold or a file can carry:
\* no cursor or a cursor, no backlog or a backlog.
DrawnCursors == {None, 2, MaxEventId}
DrawnBacklogs ==
    {EmptyBacklog, [k \in {1} |-> BacklogTimeout], [k \in {1, 3} |-> BacklogTimeout + 1]}
DrawnPlugins ==
    [PluginIds -> {[lastEventId |-> c, backlog |-> b] : c \in DrawnCursors, b \in DrawnBacklogs}]

\* A running process about to write the file after an event, the file on
\* disk being the one of the bootstrap, the plugins holding any drawn state.
RoundTripInit ==
    /\ pc = "save"
    /\ files = [p \in PluginIds |-> [present |-> TRUE, mtime |-> 0, ok |-> TRUE, partial |-> 0]]
    /\ \E d \in DrawnPlugins :
          plugins = [p \in PluginIds |->
                        [CollectionsLoad(NoPlugins, files)[p] EXCEPT
                            !.lastEventId = d[p].lastEventId, !.backlog = d[p].backlog]]
    /\ eventIdFile = loadEventIdData(CollectionsLoad(NoPlugins, files), NoFile, 1).file
    /\ events = {1, 2}
    /\ now = 0
    /\ batch = <<2>>
    /\ plIdx = 1
    /\ touches = 0
    /\ crashes = 0
    /\ failures = 0
    /\ lastDispatch = NoDispatch
    /\ saved = eventIdFile.data
    /\ history = NoHistory
    /\ continue = TRUE
    /\ pidFile = TRUE
    /\ sourceUp = TRUE
    /\ signal = "none"
    /\ retry = NoRetry
    /\ writable = TRUE
    /\ other = "down"
    /\ stopper = "idle"

\* The file is written, the process ends, and a new one reads the file.
RoundTripNext ==
    \/ SaveEventIdData
    \/ Crash
    \/ Start("none")

RoundTripSpec == RoundTripInit /\ [][RoundTripNext]_vars

\* A running process about to fetch, its first plugin holding any state: no
\* cursor, or a cursor and a backlog whose entries expired, expire now or
\* expire later; a second plugin, when there is one, holds the state of the
\* bootstrap; the source holds any events.
DrawnExpiries == {DrawnNow - 1, DrawnNow, DrawnNow + 1}
DrawnStates ==
    {[lastEventId |-> None, backlog |-> EmptyBacklog]}
    \cup UNION {UNION {[lastEventId : {c}, backlog : [K -> DrawnExpiries]] :
                          K \in SUBSET (Ids \ {c})} : c \in Ids}

PluginSpecInit ==
    /\ pc = "loop"
    /\ \E second \in BOOLEAN :
          files = [p \in PluginIds |->
                     [present |-> p = 1 \/ (p = 2 /\ second), mtime |-> 0, ok |-> TRUE, partial |-> 0]]
    /\ \E d \in DrawnStates :
          plugins = [CollectionsSetStateInt(CollectionsLoad(NoPlugins, files), 1) EXCEPT
                        ![1].lastEventId = d.lastEventId, ![1].backlog = d.backlog]
    /\ eventIdFile = [exists |-> TRUE, data |-> CollectionsGetState(plugins, NoFile.data),
                      legacy |-> None]
    /\ events \in SUBSET Ids \ {{}}
    /\ now = DrawnNow
    /\ batch = <<>>
    /\ plIdx = 1
    /\ touches = 0
    /\ crashes = 0
    /\ failures = 0
    /\ lastDispatch = NoDispatch
    /\ saved = eventIdFile.data
    /\ history = NoHistory
    /\ continue = TRUE
    /\ pidFile = TRUE
    /\ sourceUp = TRUE
    /\ signal = "none"
    /\ retry = NoRetry
    /\ writable = TRUE
    /\ other = "down"
    /\ stopper = "idle"

\* The fetch, and the events going through the plugin.
PluginSpecNext ==
    \/ GetNewEvents
    \/ ProcessEvent("none", {"returns"})
    \/ SaveEventIdData

PluginSpec == PluginSpecInit /\ [][PluginSpecNext]_vars

\* The match filters a plugin file can register: no filter, or any keys among
\* '*' and the event types, each with None or a list of attribute names
\* ('*' among them).
DrawnKeys == {"*", "Shotgun_Task_Change", "Shotgun_Shot_Change"}
DrawnAttributes == {"*", "sg_status_list", "code"}
DrawnFilters ==
    UNION {UNION {{Filter(K, [k \in K |-> IF k \in N THEN {} ELSE a[k]], N) :
                      a \in [K -> SUBSET DrawnAttributes]} : N \in SUBSET K} :
              K \in SUBSET DrawnKeys}

\* A running process about to fetch, with one plugin that registered one
\* callback with any of the filters; the source holds any events.
FilterSpecInit ==
    /\ pc = "loop"
    /\ files = [p \in PluginIds |-> [present |-> p = 1, mtime |-> 0, ok |-> TRUE, partial |-> 0]]
    /\ \E f \in DrawnFilters :
          plugins = [CollectionsSetStateInt(CollectionsLoad(NoPlugins, files), 1) EXCEPT
                        ![1].callbacks = << [active |-> TRUE, matchEvents |-> f,
                                              version |-> 0] >>]
    /\ eventIdFile = [exists |-> TRUE, data |-> CollectionsGetState(plugins, NoFile.data),
                      legacy |-> None]
    /\ events \in SUBSET Ids \ {{}}
    /\ now = 0
    /\ batch = <<>>
    /\ plIdx = 1
    /\ touches = 0
    /\ crashes = 0
    /\ failures = 0
    /\ lastDispatch = NoDispatch
    /\ saved = eventIdFile.data
    /\ history = NoHistory
    /\ continue = TRUE
    /\ pidFile = TRUE
    /\ sourceUp = TRUE
    /\ signal = "none"
    /\ retry = NoRetry
    /\ writable = TRUE
    /\ other = "down"
    /\ stopper = "idle"

\* The fetch, and the events going through the plugin and its callback.
FilterSpecNext ==
    \/ GetNewEvents
    \/ ProcessEvent("none", {"returns"})
    \/ SaveEventIdData

FilterSpec == FilterSpecInit /\ [][FilterSpecNext]_vars

(***************************************************************************)
(* Properties                                                              *)
(***************************************************************************)
\* The plugin and the event of the dispatch a step makes (after the step).
Dispatched == lastDispatch.plugin # 0

\* C1: during one run, no event id is dispatched twice to the same callback
\* object: a step never invokes a callback for an id it was invoked for
\* before.
C1_NoDoubleDispatch ==
    [][\A k \in lastDispatch'.invoked :
          lastDispatch'.id \notin history.seen[lastDispatch'.plugin][k]]_vars

\* C2: every key of a plugin's backlog is strictly less than the plugin's
\* lastEventId.
C2_BacklogBelowLastEventId ==
    \A p \in PluginIds : \A k \in DOMAIN plugins[p].backlog :
        plugins[p].lastEventId # None /\ k < plugins[p].lastEventId

\* C3: an id dispatched to a plugin's callbacks is not below an id the
\* plugin was dispatched (and processed) earlier in the run, unless it is in
\* the plugin's backlog at that moment.
C3_DispatchOrder ==
    [][lastDispatch'.invoked # {} =>
          \/ \A e \in history.doneNow[lastDispatch'.plugin] : lastDispatch'.id >= e
          \/ lastDispatch'.id \in DOMAIN plugins[lastDispatch'.plugin].backlog]_vars

\* Plugin p took the event with id e in its process(), now or before.
DispatchedTo(p, e) == e \in history.delivered[p]

\* The source returns e, and e is above the cursor of p in a running process.
AboveCursor(p, e) ==
    /\ pc # "down"
    /\ e \in events
    /\ plugins[p].lastEventId # None
    /\ e > plugins[p].lastEventId

\* The source returns e, and e is an unexpired id of the backlog of p in a
\* running process.
InBacklog(p, e) ==
    /\ pc # "down"
    /\ e \in events
    /\ e \in DOMAIN UnexpiredBacklog(plugins[p], now)

\* The process ended while e was a backlog id of p in the file.
DownInBacklog(p, e) ==
    /\ pc = "down"
    /\ e \in DOMAIN eventIdFile.data[p].backlog

C5_NoReplayBelowPersisted ==
    [][lastDispatch'.invoked # {} =>
          LET st == history.startState[lastDispatch'.plugin]
          IN  \/ st.lastEventId = None
              \/ lastDispatch'.id > st.lastEventId
              \/ lastDispatch'.id \in DOMAIN st.backlog]_vars

C7_AtMostOneReplay ==
    \A p \in PluginIds : Cardinality(history.redone[p]) <= 1

\* C8: when a callback raised, it and its plugin are inactive, and no
\* callback registered after it was invoked for the event.
C8_FailureDeactivates ==
    lastDispatch.failed # 0 =>
        /\ ~plugins[lastDispatch.plugin].active
        /\ ~plugins[lastDispatch.plugin].callbacks[lastDispatch.failed].active
        /\ \A k \in lastDispatch.invoked : k <= lastDispatch.failed

\* C9: an inactive plugin is not dispatched to, and a plugin object goes from
\* inactive to active only in the reload of the collections, when its file's
\* mtime is greater than its stored mtime.
C9_InactiveUntilReload ==
    [][/\ Dispatched' => plugins[lastDispatch'.plugin].active
       /\ \A p \in PluginIds :
             (pc # "down" /\ pc' # "down" /\ ~plugins[p].active /\ plugins'[p].active)
                 => (pc = "reload" /\ plugins[p].mtime < files[p].mtime)]_vars

\* C9 witness: an event is being offered to a plugin that a callback failure
\* made inactive.
C9_Witness ==
    /\ pc = "dispatch"
    /\ ~plugins[IterOrder[plIdx]].active
    /\ plugins[IterOrder[plIdx]].callbacks # <<>>

\* C10: a callback failure in a plugin changes no other plugin, and the main
\* loop goes on with the event.
C10_FailureIsolated ==
    [][lastDispatch'.failed # 0 =>
          /\ \A q \in PluginIds \ {lastDispatch'.plugin} : plugins'[q] = plugins[q]
          /\ pc' \in {"dispatch", "save"}]_vars

\* C11: a start that finds no state file gives every plugin the id of the
\* most recent event of the source and an empty backlog, and writes the file
\* with that state before any fetch; the fetch made from that state returns
\* the events with the ids from that id plus one.
C11_FreshInstall ==
    [][/\ (pc = "down" /\ pc' = "loop" /\ ~eventIdFile.exists) =>
             /\ batch' = <<>>
             /\ eventIdFile'.exists
             /\ \A p \in PluginIds :
                   /\ plugins'[p].lastEventId = LatestEventId
                   /\ plugins'[p].backlog = EmptyBacklog
                   /\ eventIdFile'.data[p] =
                         [has |-> TRUE, lastEventId |-> LatestEventId, backlog |-> EmptyBacklog]
       /\ \A n \in Ids :
             (/\ pc = "loop" /\ pc' # "loop" /\ pc' # "down"
              /\ \E p \in PluginIds : plugins[p].active
              /\ \A p \in PluginIds :
                    /\ plugins[p].lastEventId = n
                    /\ plugins[p].backlog = EmptyBacklog
                    /\ eventIdFile.data[p] = PluginGetState(plugins[p]))
                => batch' = Sorted({e \in events : e >= n + 1})]_vars

\* C11 witness: the fetch after a fresh install returned events, and the
\* first of them is about to be dispatched.
C11_Witness ==
    /\ pc = "dispatch"
    /\ plIdx = 1
    /\ crashes = 0
    /\ touches = 0
    /\ \A p \in PluginIds :
          /\ plugins[p].lastEventId = 1
          /\ plugins[p].backlog = EmptyBacklog
          /\ eventIdFile.data[p] = PluginGetState(plugins[p])
    /\ Head(batch) > 1

\* C12: once the event id file was read, the plugins are never all without a
\* lastEventId: when the main loop is about to fetch and an active plugin is
\* loaded, some active plugin has a next event id, so the fetch is made.
C12_SeededWhenNoCursor ==
    (pc = "loop" /\ \E p \in PluginIds : InCollection(plugins[p]) /\ plugins[p].active)
        => NextEventId(plugins, now) # None

\* C13: a plugin with lastEventId L that processes an event N which is not
\* in its backlog has lastEventId N afterwards.  When N > L + 1, every id
\* between L and N is then in the backlog with the expiry now + 5 minutes,
\* the other entries are as they were, and the next unprocessed id is the
\* least key of the backlog (of its unexpired entries).  When the plugin had
\* no lastEventId, the backlog is as it was.
C13_GapToBacklog ==
    [][\A p \in PluginIds :
          (lastDispatch'.plugin = p /\ lastDispatch'.result /\ ~lastDispatch'.inBacklog) =>
             LET L == plugins[p].lastEventId
                 N == lastDispatch'.id
                 before == plugins[p].backlog
                 after == plugins'[p].backlog
             IN  /\ plugins'[p].lastEventId = N
                 /\ (L # None /\ N > L + 1) =>
                       /\ DOMAIN after = DOMAIN before \cup ((L + 1)..(N - 1))
                       /\ \A i \in (L + 1)..(N - 1) : after[i] = now + BacklogTimeout
                       /\ \A k \in DOMAIN before \ ((L + 1)..(N - 1)) : after[k] = before[k]
                       /\ getNextUnprocessedEventId(plugins'[p], now)
                             = Min({k \in DOMAIN after : after[k] >= now})
                 /\ (L = None) => after = before]_vars

\* C13 witness: a plugin that had a backlog has just processed an event
\* beyond the next id: the ids skipped are in its backlog beside an entry it
\* had before.
C13_Witness ==
    /\ lastDispatch.plugin = 1
    /\ lastDispatch.result
    /\ ~lastDispatch.inBacklog
    /\ plugins[1].lastEventId = lastDispatch.id
    /\ \E i, k \in DOMAIN plugins[1].backlog :
          /\ i < lastDispatch.id
          /\ plugins[1].backlog[i] = now + BacklogTimeout
          /\ plugins[1].backlog[k] # now + BacklogTimeout

\* C14: a plugin that processes an id of its backlog drops the id from the
\* backlog and keeps its lastEventId; no Plugin.process lowers lastEventId.
C14_BacklogCatchUp ==
    [][\A p \in PluginIds :
          (lastDispatch'.plugin = p /\ lastDispatch'.result) =>
             /\ lastDispatch'.inBacklog =>
                   /\ lastDispatch'.id \notin DOMAIN plugins'[p].backlog
                   /\ plugins[p].lastEventId > lastDispatch'.id
                         => plugins'[p].lastEventId = plugins[p].lastEventId
             /\ plugins'[p].lastEventId >= plugins[p].lastEventId]_vars

\* C15: the fetch makes every active plugin drop exactly the backlog entries
\* whose expiry is before now; the id a plugin returns is the least of the
\* keys left and lastEventId + 1 (when it has a lastEventId), or None when
\* there is neither, and the fetch asks for the events from the least id
\* returned.
C15_NextUnprocessedEventId ==
    [][(pc = "loop" /\ pc' \in {"dispatch", "sleep"}) =>
          LET held == {p \in PluginIds : InCollection(plugins[p]) /\ plugins[p].active}
              left(p) == {k \in DOMAIN plugins[p].backlog : ~(plugins[p].backlog[k] < now)}
              ids(p) == left(p) \cup (IF plugins[p].lastEventId # None
                                      THEN {plugins[p].lastEventId + 1} ELSE {})
              all == UNION {ids(p) : p \in held}
          IN  /\ \A p \in held :
                    /\ DOMAIN plugins'[p].backlog = left(p)
                    /\ \A k \in left(p) : plugins'[p].backlog[k] = plugins[p].backlog[k]
                    /\ plugins'[p].lastEventId = plugins[p].lastEventId
                    /\ getNextUnprocessedEventId(plugins[p], now)
                          = IF ids(p) = {} THEN None ELSE Min(ids(p))
              /\ batch' = IF all = {} THEN <<>> ELSE Sorted({e \in events : e >= Min(all)})]_vars

\* C15 witness: a fetch made a plugin drop an expired entry and keep one
\* that expires now, and the first event returned is a key the plugin kept.
C15_Witness ==
    /\ pc = "dispatch"
    /\ plIdx = 1
    /\ \E k \in DOMAIN saved[1].backlog :
          saved[1].backlog[k] < now /\ k \notin DOMAIN plugins[1].backlog
    /\ \E k \in DOMAIN plugins[1].backlog : plugins[1].backlog[k] = now
    /\ Head(batch) \in DOMAIN plugins[1].backlog
    /\ Head(batch) < plugins[1].lastEventId

PathOf(p) == CHOOSE i \in 1..Len(Paths) : p \in Basenames(Paths[i])

\* (collection, basename, index) of a is before that of b.
InvokedBefore(a, b) ==
    \/ PathOf(a[1]) < PathOf(b[1])
    \/ PathOf(a[1]) = PathOf(b[1]) /\ a[1] < b[1]
    \/ a[1] = b[1] /\ a[2] < b[2]

\* C17: the callbacks invoked for an event are invoked in the order of
\* (position of the collection in the paths, basename of the plugin,
\* registration index of the callback), whatever the event, the listing of
\* the directories and the moment the plugins were loaded.
C17_InvocationOrder ==
    \A i, j \in DOMAIN history.order :
        i < j => InvokedBefore(history.order[i], history.order[j])

\* C17 witness: for one event, both callbacks of the first plugin of the
\* first collection were invoked, then the callback of a plugin of the
\* second collection whose basename sorts before that of the other plugin of
\* the first collection, which was invoked in between.
C17_Witness ==
    history.order = << <<1, 1>>, <<1, 2>>, <<3, 1>>, <<2, 1>> >>

\* C18: one event is in flight at a time.  Callbacks are invoked for the
\* first event of the batch only; that event leaves the batch only by the
\* write of the event id file, which carries the state of every plugin and
\* comes only after the turn of the last plugin of the last collection, the
\* turns being taken one plugin after the other from the first; and the
\* events of a batch are in ascending id order.
C18_OneEventInFlight ==
    [][/\ lastDispatch'.invoked # {} =>
             pc = "dispatch" /\ lastDispatch'.id = Head(batch)
       /\ (batch # <<>> /\ batch' # batch /\ pc' # "down") =>
             /\ pc = "save"
             /\ batch' = Tail(batch)
             /\ eventIdFile'.exists
             /\ \A p \in PluginIds :
                   InCollection(plugins[p]) => eventIdFile'.data[p] = PluginGetState(plugins[p])
       /\ (pc # "save" /\ pc' = "save") =>
             pc = "dispatch" /\ plIdx = Len(IterOrderOf(plugins))
       /\ (pc = "dispatch" /\ pc' = "dispatch") => plIdx' = plIdx + 1 /\ batch' = batch
       /\ (pc # "dispatch" /\ pc' = "dispatch") => plIdx' = 1
       /\ \A i, j \in DOMAIN batch' : i < j => batch'[i] < batch'[j]]_vars

\* C18 witness: a callback is invoked for the second event of a batch of
\* three, the file holding what the plugins held when the first event had
\* gone through all of them.
C18_Witness ==
    /\ events = {1, 2, 3, 4}
    /\ batch = <<3, 4>>
    /\ lastDispatch.id = 3
    /\ lastDispatch.invoked # {}
    /\ crashes = 0
    /\ touches = 0
    /\ \A p \in PluginIds : saved[p].lastEventId = 2 /\ eventIdFile.data[p].lastEventId = 2

\* C19: a signal (TERM or INT) to the running daemon clears the continue
\* flag; the event being dispatched then still goes through the remaining
\* plugins and is written to the event id file; and the main loop ends,
\* whatever it was doing when the signal came.
C19_GracefulShutdown ==
    /\ [][/\ (signal = "none" /\ signal' # "none") => ~continue'
          /\ (signal' # "none" /\ pc = "dispatch") => pc' \in {"dispatch", "save"}
          /\ (signal' # "none" /\ pc = "save") =>
                (pc' = "save" \/ (batch' = Tail(batch) /\ eventIdFile'.exists))]_vars
    /\ (signal # "none") ~> (pc \in {"stopped", "down"})

\* C20: when the pid file of the running daemon is gone, the main loop ends:
\* the iteration that finds the file absent is not followed by another.
C20_PidFileRemoved ==
    /\ [][(pc = "reload" /\ ~pidFile) => pc' # "loop"]_vars
    /\ (pc \notin {"stopped", "down"} /\ ~pidFile) ~> (pc \in {"stopped", "down"})

\* Whether this step is a fetch attempt that failed.
FetchFailed == pc \in {"loop", "retry"} /\ pc' = "retry" /\ retry' # retry

\* C23: each failed request increments the counter by one; when it reaches
\* max_conn_retries the daemon sleeps and the counter is reset to 0,
\* otherwise the request is retried at once; so the counter stays in
\* 0 .. max_conn_retries - 1 and the daemon sleeps exactly once every
\* max_conn_retries failures in a row.
C23_RetryCounter ==
    /\ [](retry.attempts \in 0..(MaxConnRetries - 1))
    /\ [](retry.failed < MaxCounted =>
            /\ retry.attempts = retry.failed % MaxConnRetries
            /\ retry.slept <=> (retry.failed > 0 /\ retry.failed % MaxConnRetries = 0))
    /\ [][FetchFailed =>
            LET before == IF pc = "loop" THEN 0 ELSE retry.attempts
            IN  IF before + 1 = MaxConnRetries
                THEN retry'.attempts = 0 /\ retry'.slept
                ELSE retry'.attempts = before + 1 /\ ~retry'.slept /\ now' = now]_vars

\* The daemon slept for the second time in a row of failures.
C23_Witness ==
    /\ pc = "retry"
    /\ retry.failed = 2 * MaxConnRetries
    /\ retry.slept

\* C24: while a fetch fails and is retried no plugin's cursor or backlog
\* changes, no callback is invoked, the state file is not written, and
\* every attempt asks for the ids from the lower bound of the first one.
C24_RetryKeepsCursor ==
    [][/\ pc = "retry" =>
            /\ plugins' = plugins
            /\ eventIdFile' = eventIdFile
            /\ ~Dispatched'
            /\ retry'.nextEventId = retry.nextEventId
       /\ (pc = "loop" /\ pc' = "retry") =>
            /\ \A p \in PluginIds : plugins'[p].lastEventId = plugins[p].lastEventId
            /\ eventIdFile' = eventIdFile
            /\ ~Dispatched'
            /\ retry'.nextEventId = NextEventId(plugins, now)
       /\ (pc = "retry" /\ pc' \in {"dispatch", "sleep"}) =>
            batch' = Find(retry.nextEventId)]_vars

\* A fetch is retried at a time when the plugins would give another lower
\* bound than the one of the first attempt.
C24_Witness ==
    /\ pc = "retry"
    /\ retry.failed >= 2
    /\ NextEventId(plugins, now) # retry.nextEventId

\* C25: a fetch that fails never ends the daemon: the query is made again,
\* and when the source answers from some time on, the fetch returns and
\* the loop goes on, however many attempts failed.
C25_FailuresRetried ==
    /\ [][(pc \in {"loop", "retry"}) => (pc' \in {"loop", "retry", "dispatch", "sleep"})]_vars
    /\ (<>[]sourceUp) => ((pc = "retry") ~> (pc \in {"dispatch", "sleep"}))

\* A fetch returned events after more failures than max_conn_retries.
C25_Witness ==
    /\ pc = "dispatch"
    /\ retry.failed > MaxConnRetries

\* C26: a bootstrap query that fails does not end the daemon: the process
\* that has no state file and finds the source down stays up (and repeats
\* the query until it is answered).
C26_BootstrapRetried ==
    [][(/\ (pc = "down" /\ pc' # "down") \/ (pc = "reload" /\ pc' # "reload")
        /\ ~eventIdFile.exists
        /\ ~sourceUp
        /\ continue) => pc' \notin {"stopped", "down"}]_vars

\* C27: a failure to write the state file does not end the main loop: the
\* loop goes on with the next event and the plugins keep their cursors.
C27_WriteFailureSurvived ==
    [][(pc = "save" /\ pc' # "save" /\ ~writable) =>
            /\ pc' \in {"dispatch", "sleep"}
            /\ batch' = Tail(batch)
            /\ plugins' = plugins]_vars

\* Whether this step loads the collections (at the start or at the end of
\* an iteration of the main loop).
Loading == (pc = "down" /\ pc' # "down") \/ (pc = "reload" /\ pc' # "reload")

\* Whether the load of this step evaluates the file of p.
Evaluates(p) ==
    files[p].present /\ (plugins[p].mtime = None \/ plugins[p].mtime < files[p].mtime)

\* C29: a plugin file that fails at load time makes its plugin inactive and
\* nothing else: the daemon goes on, the other files are loaded, the other
\* plugins keep their active flag and callbacks when their file did not
\* change, and every cursor is what it would be had the file loaded.
C29_LoadFailureIsolated ==
    [][Loading =>
        \A p \in PluginIds : (Evaluates(p) /\ ~files[p].ok) =>
            LET fine == tryLoadEventIdData(
                            CollectionsLoad(plugins, [files EXCEPT ![p].ok = TRUE]),
                            eventIdFile, LatestEventId, sourceUp, writable).plugins
            IN  /\ ~plugins'[p].active
                /\ pc' = "loop"
                /\ plugins'[p].lastEventId = fine[p].lastEventId
                /\ plugins'[p].backlog = fine[p].backlog
                /\ \A q \in PluginIds \ {p} :
                      /\ plugins'[q] = fine[q]
                      /\ files[q].present =>
                            (InCollection(plugins'[q]) /\ ~(plugins'[q].mtime < files[q].mtime))
                      /\ (files[q].present /\ ~Evaluates(q)) =>
                            /\ plugins'[q].active = plugins[q].active
                            /\ plugins'[q].callbacks = plugins[q].callbacks]_vars

\* The first file of the iteration failed while registerCallbacks ran, and
\* the files after it are loaded.
C29_Witness ==
    /\ pc = "loop"
    /\ ~plugins[IterOrder[1]].active
    /\ plugins[IterOrder[1]].callbacks # <<>>
    /\ \A i \in 2..Len(IterOrder) :
          plugins[IterOrder[i]].active /\ plugins[IterOrder[i]].callbacks # <<>>

\* C30: load() on a loaded plugin does nothing when the file's mtime did not
\* advance beyond the stored one; when it advanced, the callbacks are
\* replaced by those the new file registered and the plugin is active iff
\* the file loaded: no callback of an earlier version is left, whether the
\* reload fails or not.
C30_ReloadIffMtimeAdvanced ==
    /\ [](\A p \in PluginIds : \A k \in 1..Len(plugins[p].callbacks) :
            plugins[p].callbacks[k].version = plugins[p].mtime)
    /\ [][Loading =>
            \A p \in PluginIds : (plugins[p].mtime # None /\ files[p].present) =>
                IF plugins[p].mtime < files[p].mtime
                THEN /\ plugins'[p].mtime = files[p].mtime
                     /\ plugins'[p].active = files[p].ok
                     /\ \A k \in 1..Len(plugins'[p].callbacks) :
                           /\ plugins'[p].callbacks[k].version = files[p].mtime
                           /\ plugins'[p].callbacks[k].active
                ELSE /\ plugins'[p].mtime = plugins[p].mtime
                     /\ plugins'[p].active = plugins[p].active
                     /\ plugins'[p].callbacks = plugins[p].callbacks]_vars

\* A plugin that processed events was reloaded from a file whose
\* registerCallbacks raised, while a plugin whose file did not change keeps
\* a callback that was deactivated.
C30_Witness ==
    /\ pc = "loop"
    /\ \E p \in PluginIds :
          /\ plugins[p].mtime > 0
          /\ ~plugins[p].active
          /\ plugins[p].callbacks # <<>>
          /\ plugins[p].lastEventId >= 2
    /\ \E q \in PluginIds :
          /\ plugins[q].mtime = 0
          /\ \E k \in 1..Len(plugins[q].callbacks) : ~plugins[q].callbacks[k].active

\* C28: whenever the main loop ended (the flag was cleared, a
\* KeyboardInterrupt or another exception reached _run), the process
\* terminates and the pid file is gone when it has, so that the next start
\* is not refused.
C28_PidFileRemovedAtExit ==
    /\ [][(pc = "stopped" /\ pc' # "stopped") => (pc' = "down" /\ ~pidFile')]_vars
    /\ [](pc = "down" => ~pidFile)
    /\ (pc = "stopped") ~> (pc = "down")

\* The process ended after a SIGINT while its pid file was there.
C28_Witness ==
    /\ pc = "down"
    /\ signal = "INT"
    /\ ~pidFile

\* Whether the daemon process is in _mainLoop.
InMainLoop == pc \notin {"down", "stopped"}

\* C21: the pid file is a mutex: whatever the interleaving of the
\* invocations and of the signals, two daemon processes with the same pid
\* file are never in the main loop at the same time.
C21_PidFileMutex == ~(InMainLoop /\ other = "loop")

\* C22: stop() is idempotent: without a pid file it returns and changes
\* nothing (so a second stop does what the first did), and when a stop of
\* a running daemon returns the daemon's loop has ended and the pid file is
\* gone.
C22_StopIdempotent ==
    /\ [][(stopper' = "notRunning" /\ stopper # "notRunning") =>
            /\ ~pidFile /\ ~pidFile'
            /\ UNCHANGED << pc, plugins, eventIdFile, continue, signal, batch, saved >>]_vars
    /\ [][(stopper = "killing" /\ stopper' = "returned") =>
            (pc' = "down" /\ ~pidFile')]_vars
    /\ []((stopper = "returned" /\ pc = "down") => ~pidFile)

\* A stop of a daemon that ran returned, and a second stop returned after it.
C22_Witness ==
    /\ stopper = "notRunning"
    /\ pc = "down"
    /\ signal = "TERM"
    /\ eventIdFile.exists

\* C31: a state file that holds a single integer N gives every plugin of
\* every collection the cursor N when the daemon starts, and every file the
\* daemon writes is in the structured form, with the state of each plugin.
C31_LegacyState ==
    /\ [][(pc = "down" /\ pc' # "down" /\ eventIdFile.exists /\ eventIdFile.legacy # None) =>
            /\ pc' = "loop"
            /\ \A p \in PluginIds :
                  /\ files[p].present => InCollection(plugins'[p])
                  /\ InCollection(plugins'[p]) =>
                        plugins'[p].lastEventId = eventIdFile.legacy]_vars
    /\ [][eventIdFile' # eventIdFile =>
            /\ eventIdFile'.exists
            /\ eventIdFile'.legacy = None
            /\ \A p \in PluginIds : InCollection(plugins'[p]) =>
                  eventIdFile'.data[p] = PluginGetState(plugins'[p])]_vars

\* The daemon that started from an old-style file with an integer above 1
\* has written the file in the structured form.
C31_Witness ==
    /\ pc = "sleep"
    /\ eventIdFile.exists
    /\ eventIdFile.legacy = None
    /\ \A p \in PluginIds : plugins[p].lastEventId >= 3

\* The next unprocessed ids of the active plugins, at time t.
ActiveNexts(t) ==
    {getNextUnprocessedEventId(plugins[p], t) :
        p \in {q \in PluginIds : InCollection(plugins[q]) /\ plugins[q].active}} \ {None}

\* C32: a fetch asks for the events from the least next unprocessed id of
\* the active plugins, whatever the cursors of the inactive ones; no fetch
\* is made when no active plugin has a next id; and no active plugin has a
\* next id below the bound of the fetch that returns.
C32_FetchLowerBound ==
    [][/\ (pc = "loop" /\ pc' \in {"dispatch", "sleep"}) =>
            IF ActiveNexts(now) = {}
            THEN batch' = <<>>
            ELSE /\ sourceUp
                 /\ batch' = Sorted({e \in events : e >= Min(ActiveNexts(now))})
       /\ (pc = "loop" /\ pc' = "retry") =>
            /\ ActiveNexts(now) # {}
            /\ retry'.nextEventId = Min(ActiveNexts(now))
       /\ (pc = "loop" /\ ActiveNexts(now) = {}) => pc' \in {"loop", "sleep"}
       /\ (pc = "retry" /\ pc' \in {"dispatch", "sleep"}) =>
            /\ batch' = Sorted({e \in events : e >= retry.nextEventId})
            /\ \A n \in ActiveNexts(now) : n >= retry.nextEventId]_vars

\* A fetch returned events from a bound above the next id of an inactive
\* plugin, which has events of its own to ask for.
C32_Witness ==
    /\ pc = "dispatch"
    /\ plIdx = 1
    /\ \E p \in PluginIds :
          /\ InCollection(plugins[p])
          /\ ~plugins[p].active
          /\ plugins[p].lastEventId # None
          /\ plugins[p].lastEventId + 1 < Head(batch)
          /\ plugins[p].lastEventId + 1 \in events

\* Whether the last step is a call of process() of p for an event one of
\* its callbacks had failed on.
Redispatched(p) ==
    /\ lastDispatch.plugin = p
    /\ lastDispatch.called
    /\ lastDispatch.id \in history.replayed[p]

\* C33 as stated: a callback failure leaves the plugin's cursor and backlog
\* as they were before the dispatch, and once the plugin is active again
\* (reloaded from a rewritten file) the event is dispatched to it again.
C33_FailedEventRedispatched ==
    /\ [][(Dispatched' /\ lastDispatch'.failed # 0) =>
            LET p == lastDispatch'.plugin
            IN  /\ plugins'[p].lastEventId = plugins[p].lastEventId
                /\ plugins'[p].backlog = plugins[p].backlog]_vars
    /\ \A p \in PluginIds :
          (plugins[p].active /\ history.failedOn[p] # {}) ~> Redispatched(p)

\* C33 amended: the event is dispatched again when it is above the cursor,
\* or an id of the backlog that has not expired when the plugin is active
\* again; a backlog id that expired in between is dropped.
C33_FailedEventRedispatchedWhileUnexpired ==
    /\ [][(Dispatched' /\ lastDispatch'.failed # 0) =>
            LET p == lastDispatch'.plugin
            IN  /\ plugins'[p].lastEventId = plugins[p].lastEventId
                /\ plugins'[p].backlog = plugins[p].backlog]_vars
    /\ \A p \in PluginIds :
          (/\ plugins[p].active
           /\ \E e \in history.failedOn[p] :
                 \/ e > plugins[p].lastEventId
                 \/ e \in DOMAIN UnexpiredBacklog(plugins[p], now))
              ~> Redispatched(p)

\* A plugin that failed on an event is active again and takes the event.
C33_Witness ==
    /\ Dispatched
    /\ Redispatched(lastDispatch.plugin)
    /\ plugins[lastDispatch.plugin].mtime > 0

\* The step is the reload at the end of a loop iteration, after which the
\* loop goes on.
Reloads == pc = "reload" /\ pc' = "loop"

\* C34: the reload step of the main loop (collection load, then the state
\* re-read) leaves the lastEventId and the backlog of every plugin whose
\* file is still present as they were before the step.
C34_ReloadPreservesCursors ==
    [][Reloads =>
          \A p \in PluginIds :
              (files[p].present /\ InCollection(plugins[p])) =>
                  /\ plugins'[p].lastEventId = plugins[p].lastEventId
                  /\ plugins'[p].backlog = plugins[p].backlog]_vars

\* C36: an id that getNextUnprocessedEventId removed from a plugin's backlog
\* as expired does not come back: every key of a plugin's backlog after the
\* state re-read at the end of a loop iteration was a key before it or has
\* not expired.
C36_ExpiryIsPermanent ==
    [][Reloads =>
          \A p \in PluginIds :
              InCollection(plugins[p]) =>
                  \A e \in DOMAIN plugins'[p].backlog :
                      \/ e \in DOMAIN plugins[p].backlog
                      \/ plugins'[p].backlog[e] >= now']_vars

\* C35: a KeyboardInterrupt raised while the main loop runs, inside a
\* callback or outside, ends the loop and deactivates no callback and no
\* plugin.
C35_InterruptExitsCleanly ==
    [][(signal = "none" /\ signal' = "INT") =>
          /\ pc' = "stopped"
          /\ \A p \in PluginIds :
                /\ plugins'[p].active = plugins[p].active
                /\ \A k \in 1..Len(plugins[p].callbacks) :
                      plugins'[p].callbacks[k].active = plugins[p].callbacks[k].active]_vars

\* C37: an active plugin has only active callbacks; an inactive callback is
\* never invoked; and a callback that is inactive is active again only as a
\* new object, made by a load of its plugin.
C37_ActivePluginHasActiveCallbacks ==
    /\ [](\A p \in PluginIds :
            plugins[p].active =>
                \A k \in 1..Len(plugins[p].callbacks) : plugins[p].callbacks[k].active)
    /\ [][/\ Dispatched' =>
                \A k \in lastDispatch'.invoked :
                    plugins[lastDispatch'.plugin].callbacks[k].active
          /\ \A p \in PluginIds :
                \A k \in 1..Len(plugins[p].callbacks) :
                    (/\ ~plugins[p].callbacks[k].active
                     /\ k <= Len(plugins'[p].callbacks)
                     /\ plugins'[p].callbacks[k].active)
                        => /\ pc \in {"down", "reload"}
                           /\ plugins'[p].mtime # plugins[p].mtime]_vars

\* A callback failed: it and its plugin are inactive, while another plugin
\* is active with all its callbacks.
C37_Witness ==
    /\ Dispatched
    /\ lastDispatch.failed # 0
    /\ ~plugins[lastDispatch.plugin].active
    /\ ~plugins[lastDispatch.plugin].callbacks[lastDispatch.failed].active
    /\ \E q \in PluginIds \ {lastDispatch.plugin} :
          /\ plugins[q].active
          /\ plugins[q].callbacks # <<>>

====
